---- MODULE Spec2Model ----
(***************************************************************************)
(* Model of the streaming ingestion pipeline of bnb-fourmeme-monitoring.   *)
(*                                                                         *)
(*   CacheSpec : BlockTimeManager (src/src/rpc/index.ts:128-191), the      *)
(*               bounded block-timestamp cache with retrying fetch-on-miss *)
(*               driven by concurrent getBlockTimestamp tasks.             *)
(*   ConnSpec  : RPCProvider (src/src/rpc/index.ts:6-125), the connection  *)
(*               lifecycle manager, with the application start-up and      *)
(*               shutdown that drive it (src/src/index.ts:8-71, 773-800;   *)
(*               src/src/monitor/pancakeswap.ts:132-160).                  *)
(*   ConnFairSpec : the manager on its own under fair scheduling, failed   *)
(*               by the network while sessions remain.                     *)
(*   DispatchSpec : the event handlers of the contract listeners and the   *)
(*               publish step (src/src/index.ts:472-770), run by one       *)
(*               handler task on a started application.                    *)
(*   DisconnectSpec : RPCProvider.disconnect() called twice in a row       *)
(*               (src/src/rpc/index.ts:104-120) from any manager state.    *)
(*   BackoffSpec : calculateBackoffDelay (src/src/utils/helpers.ts:29-32)  *)
(*               over the attempts of a run.                               *)
(*   DecodeSpec : the record handleTokenCreate builds from a raw log       *)
(*               (src/src/index.ts:495-515), the same log decoded twice    *)
(*               while the wall clock advances.                            *)
(*   ProducerSpec : the Kafka producer module (src/unnamed/part_002), its  *)
(*               callers in flight at once.                                *)
(*                                                                         *)
(* Each specification moves the variables of its component and leaves the  *)
(* others in their initial state.                                          *)
(*                                                                         *)
(* Execution is single-threaded and cooperative: one action is the code    *)
(* that runs between two suspension points (await) of one task.            *)
(***************************************************************************)
EXTENDS Integers, Naturals, Sequences, FiniteSets, TLC

\* null, the not-found result (never a timestamp: those are >= 0)
NULL == -1

(***************************************************************************)
(* Bounds.                                                                 *)
(***************************************************************************)
\* capacity of the cache; the program uses 100 (rpc/index.ts:130), the model
\* a small capacity so that overflow happens within the explored block range
maxCacheSize == 2
\* block numbers the tasks ask for: always more of them than the capacity
NumBlocks == maxCacheSize + 1
\* ceiling of the reconnect attempts; the program uses 10 (rpc/index.ts:14),
\* the model a small ceiling so that it is reached within MaxSessions
maxReconnectAttempts == 2
\* streaming sessions (connect() calls) opened in one run
MaxSessions == 3
\* records the created-token index grows to
MaxCreatedTokens == 2
\* attempts a backoff run goes through
MaxBackoffAttempt == 6

\* default of the maxRetries parameter
maxRetriesDefault == 3

Blocks == 1..NumBlocks
\* two concurrent handler tasks calling getBlockTimestamp
Tasks == {"t1", "t2"}
\* the values of block.timestamp (seconds) the provider answers with
Timestamps == {0, 1}
\* the values of the maxRetries parameter
RetryArgs == 0..maxRetriesDefault

VARIABLES
  blockTimestamps,  \* BlockTimeManager.blockTimestamps: block number -> ms
  call,             \* per task: the frame of its getBlockTimestamp call
  maxRetries,       \* the maxRetries argument the calls of this run pass
  insertedKeys,     \* history: block numbers inserted since construction or the last clearCache
  monotone          \* history: those inserts came in strictly increasing order

VARIABLES
  provider,             \* RPCProvider.provider: the session referenced, 0 for null
  healthCheckInterval,  \* RPCProvider.healthCheckInterval: the timer referenced, 0 for null
  reconnectAttempts,    \* RPCProvider.reconnectAttempts
  isConnected,          \* RPCProvider.isConnected
  session,              \* per session: none | open | live ('block' seen) | destroyed
  timer,                \* per health-probe timer: none | active | cleared
  connectWait,          \* per connect() call: none | waiting (for 'block' or the timeout) | done
  created,              \* connect() calls so far; call k opens session k and timer k
  destroying,           \* reconnect() calls awaiting provider.destroy()
  sleeping,             \* reconnect() calls awaiting sleep(reconnectDelay)
  probing,              \* sessions with a health probe (getBlockNumber) in flight
  disconnecting,        \* disconnect() calls awaiting provider.destroy()
  exitCode,             \* process exit code, NULL while the process runs
  fatalSignals,         \* history: process.exit(1) calls made by reconnect()
  appPc,                \* position of startApplication
  kafkaProducer,        \* fourmeme kafkaProducer: none | connecting | connected | null
  contractListeners,    \* sessions the TokenManager contract listeners are installed on
  swapFilter            \* sessions the PancakeSwap swap filter is installed on

cacheVars == <<blockTimestamps, call, maxRetries, insertedKeys, monotone>>

rpcVars == <<provider, healthCheckInterval, reconnectAttempts, isConnected, session,
             timer, connectWait, created, destroying, sleeping, probing,
             disconnecting, exitCode, fatalSignals>>

appVars == <<appPc, kafkaProducer, contractListeners, swapFilter>>

connVars == <<rpcVars, appVars>>

VARIABLES
  handler,              \* per task: the frame of the event handler it runs
  createdTokens,        \* fourmeme createdTokens: token_mint of each record, in order
  lastOutcome           \* history: how the previous listener run ended

dispatchVars == <<handler, createdTokens, lastOutcome>>

VARIABLES
  shutdownCause,        \* what called shutdownApplication: none | signal | uncaught
  disconnects,          \* the disconnect() calls made one after the other on the manager
  backoff,              \* a run of calculateBackoffDelay over increasing attempts
  decoding,             \* one raw creation log decoded more than once
  producer              \* the Kafka producer module: producerInstance and its callers

otherVars == <<shutdownCause, disconnects, backoff, decoding, producer>>

vars == <<cacheVars, connVars, dispatchVars, otherVars>>

(***************************************************************************)
(* Map helpers (the Map<number, number> of the cache as a TLA+ function).  *)
(***************************************************************************)
MapKeys(m) == DOMAIN m

MapSize(m) == Cardinality(DOMAIN m)

MapHas_AlwaysMiss(m, k) == FALSE

MapHas(m, k) == k \in DOMAIN m

MapSet(m, k, v) == [x \in (DOMAIN m) \cup {k} |-> IF x = k THEN v ELSE m[x]]

MapDelete(m, k) == [x \in (DOMAIN m) \ {k} |-> m[x]]

EmptyMap == [x \in {} |-> 0]

MaxOf(S) == CHOOSE x \in S : \A y \in S : y <= x

\* Math.min(...this.blockTimestamps.keys())
oldestBlock_Largest(m) == MaxOf(MapKeys(m))

oldestBlock(m) == CHOOSE x \in MapKeys(m) : \A y \in MapKeys(m) : x <= y

\* if (size > maxCacheSize) delete(oldestBlock)
cleanUp_Never(m) == m

cleanUp_AtCapacity(m) ==
  IF MapSize(m) >= maxCacheSize THEN MapDelete(m, oldestBlock(m)) ELSE m

cleanUp(m) ==
  IF MapSize(m) > maxCacheSize THEN MapDelete(m, oldestBlock(m)) ELSE m

\* block.timestamp * 1000
toMillis(seconds) == seconds * 1000

\* attempt < maxRetries : another attempt follows a failed one
moreAttempts_OffByOne(attempt, mr) == attempt <= mr

moreAttempts(attempt, mr) == attempt < mr

(***************************************************************************)
(* The frame of one getBlockTimestamp call.                                *)
(*   pc        idle | fetch (awaiting provider.getBlock) | sleep (awaiting *)
(*             the backoff delay) | done (returned, result holds the value)*)
(*   fetches   provider.getBlock calls issued by this call                 *)
(*   failures  attempts of this call that failed (absent block or error)   *)
(*   hit       the block was cached when the call started                  *)
(* insertedKeys is kept only while monotone holds.                         *)
(***************************************************************************)
IdleCall ==
  [pc |-> "idle", blockNumber |-> 0, attempt |-> 0,
   result |-> NULL, fetches |-> 0, failures |-> 0, hit |-> FALSE]

CacheInit ==
  /\ blockTimestamps = EmptyMap
  /\ call = [t \in Tasks |-> IdleCall]
  /\ maxRetries \in RetryArgs
  /\ insertedKeys = {}
  /\ monotone = TRUE

\* for (let attempt = 1; attempt <= maxRetries; ...) : the loop is entered
loopEntered(mr) == 1 <= mr

\* getBlockTimestamp, lines 132-141 (and 181): cache check, else the first
\* provider.getBlock, else (no attempt allowed) null
getBlockTimestamp_Joins(b) ==
  IF MapHas(blockTimestamps, b)
    THEN [IdleCall EXCEPT !.pc = "done", !.blockNumber = b,
                          !.result = blockTimestamps[b], !.hit = TRUE]
    ELSE IF \E u \in Tasks : call[u].pc \in {"fetch", "sleep"} /\ call[u].blockNumber = b
      THEN [IdleCall EXCEPT !.pc = "sleep", !.blockNumber = b]
    ELSE IF loopEntered(maxRetries)
      THEN [IdleCall EXCEPT !.pc = "fetch", !.blockNumber = b,
                            !.attempt = 1, !.fetches = 1]
      ELSE [IdleCall EXCEPT !.pc = "done", !.blockNumber = b]

getBlockTimestamp(b) ==
  IF MapHas(blockTimestamps, b)
    THEN [IdleCall EXCEPT !.pc = "done", !.blockNumber = b,
                          !.result = blockTimestamps[b], !.hit = TRUE]
    ELSE IF loopEntered(maxRetries)
      THEN [IdleCall EXCEPT !.pc = "fetch", !.blockNumber = b,
                            !.attempt = 1, !.fetches = 1]
      ELSE [IdleCall EXCEPT !.pc = "done", !.blockNumber = b]

\* a task calls getBlockTimestamp(provider, b)
callGetBlockTimestamp(t, b) ==
  /\ call[t].pc = "idle"
  /\ call' = [call EXCEPT ![t] = getBlockTimestamp(b)]
  /\ UNCHANGED <<blockTimestamps, maxRetries, insertedKeys, monotone>>
  /\ UNCHANGED <<connVars, dispatchVars, otherVars>>

\* lines 154-165: the provider answered with a block
getBlockFound(t, seconds) ==
  /\ call[t].pc = "fetch"
  /\ LET b == call[t].blockNumber
         timestamp == toMillis(seconds)
         inserted == MapSet(blockTimestamps, b, timestamp)
         cleaned == cleanUp(inserted)
     IN /\ blockTimestamps' = cleaned
        /\ call' = [call EXCEPT ![t].pc = "done", ![t].result = timestamp]
        /\ monotone' = (monotone /\ \A k \in insertedKeys : k < b)
        /\ insertedKeys' = IF monotone' THEN insertedKeys \cup {b} ELSE {}
        /\ UNCHANGED maxRetries
  /\ UNCHANGED <<connVars, dispatchVars, otherVars>>

\* a failed attempt: sleep and retry, or give up with null
failedAttempt(t) ==
  IF moreAttempts(call[t].attempt, maxRetries)
    THEN call' = [call EXCEPT ![t].pc = "sleep", ![t].failures = @ + 1]
    ELSE call' = [call EXCEPT ![t].pc = "done", ![t].result = NULL, ![t].failures = @ + 1]

\* lines 144-152: the provider answered with no block
getBlockAbsent(t) ==
  /\ call[t].pc = "fetch"
  /\ failedAttempt(t)
  /\ UNCHANGED <<blockTimestamps, maxRetries, insertedKeys, monotone>>
  /\ UNCHANGED <<connVars, dispatchVars, otherVars>>

\* lines 167-178: provider.getBlock raised
getBlockError_Evicts(t) ==
  /\ call[t].pc = "fetch"
  /\ failedAttempt(t)
  /\ blockTimestamps' = IF MapSize(blockTimestamps) > 0
                          THEN MapDelete(blockTimestamps, oldestBlock(blockTimestamps))
                          ELSE blockTimestamps
  /\ UNCHANGED <<maxRetries, insertedKeys, monotone>>
  /\ UNCHANGED <<connVars, dispatchVars, otherVars>>

getBlockError(t) ==
  /\ call[t].pc = "fetch"
  /\ failedAttempt(t)
  /\ UNCHANGED <<blockTimestamps, maxRetries, insertedKeys, monotone>>
  /\ UNCHANGED <<connVars, dispatchVars, otherVars>>

\* the backoff sleep is over: next loop iteration, next provider.getBlock
sleepDone(t) ==
  /\ call[t].pc = "sleep"
  /\ call' = [call EXCEPT ![t].pc = "fetch", ![t].attempt = @ + 1, ![t].fetches = @ + 1]
  /\ UNCHANGED <<blockTimestamps, maxRetries, insertedKeys, monotone>>
  /\ UNCHANGED <<connVars, dispatchVars, otherVars>>

\* the caller consumed the result; the task is free for its next call
callReturned(t) ==
  /\ call[t].pc = "done"
  /\ call' = [call EXCEPT ![t] = IdleCall]
  /\ UNCHANGED <<blockTimestamps, maxRetries, insertedKeys, monotone>>
  /\ UNCHANGED <<connVars, dispatchVars, otherVars>>

\* clearCache, lines 184-186
clearCache ==
  /\ blockTimestamps' = EmptyMap
  /\ insertedKeys' = {}
  /\ monotone' = TRUE
  /\ UNCHANGED <<call, maxRetries>>

\* clearCache called on its own (no shutdown)
clearCacheCall ==
  /\ clearCache
  /\ UNCHANGED <<connVars, dispatchVars, otherVars>>

CacheNext ==
  \/ \E t \in Tasks, b \in Blocks : callGetBlockTimestamp(t, b)
  \/ \E t \in Tasks, s \in Timestamps : getBlockFound(t, s)
  \/ \E t \in Tasks : getBlockAbsent(t)
  \/ \E t \in Tasks : getBlockError(t)
  \/ \E t \in Tasks : sleepDone(t)
  \/ \E t \in Tasks : callReturned(t)
  \/ clearCacheCall


(***************************************************************************)
(* RPCProvider: the connection lifecycle manager.                          *)
(***************************************************************************)
Sessions == 1..MaxSessions

running == exitCode = NULL

\* no disconnect() call made
IdleDisconnects == [pc |-> "idle", calls |-> 0, failed |-> FALSE, first |-> <<>>]

\* no calculateBackoffDelay call made
IdleBackoff == [attempt |-> 0, baseDelay |-> 0, maxDelay |-> 0, delay |-> 0, previous |-> NULL]

\* the callers of sendRawTokenEvent that may be in flight at once
Senders == {"s1", "s2"}

\* a caller outside sendRawTokenEvent
IdleSender == [pc |-> "idle", instance |-> 0, ready |-> FALSE]

\* producerInstance is null, no producer made, nobody sends or disconnects
IdleProducer ==
  [producerInstance |-> 0, made |-> 0, madeSinceDisconnect |-> 0, connected |-> {},
   disconnecting |-> 0, sender |-> [s \in Senders |-> IdleSender]]

\* no log is being decoded
IdleDecoding == [pc |-> "idle", log |-> "none", blockTimestamp |-> NULL, now |-> 0, records |-> <<>>]

\* nothing shut down, no disconnect() sequence, no backoff run, no decoding,
\* no producer made
OthersInit ==
  /\ shutdownCause = "none"
  /\ disconnects = IdleDisconnects
  /\ backoff = IdleBackoff
  /\ decoding = IdleDecoding
  /\ producer = IdleProducer

ConnInit ==
  /\ provider = 0
  /\ healthCheckInterval = 0
  /\ reconnectAttempts = 0
  /\ isConnected = FALSE
  /\ session = [s \in Sessions |-> "none"]
  /\ timer = [s \in Sessions |-> "none"]
  /\ connectWait = [s \in Sessions |-> "none"]
  /\ created = 0
  /\ destroying = 0
  /\ sleeping = 0
  /\ probing = {}
  /\ disconnecting = 0
  /\ exitCode = NULL
  /\ fatalSignals = 0
  /\ appPc = "start"
  /\ kafkaProducer = "none"
  /\ contractListeners = {}
  /\ swapFilter = {}

\* clearInterval(id)
clearInterval(tm, id) == IF id = 0 THEN tm ELSE [tm EXCEPT ![id] = "cleared"]

\* this.reconnectAttempts >= this.maxReconnectAttempts
reachedCeiling_Exceeds(attempts) == attempts > maxReconnectAttempts

reachedCeiling(attempts) == attempts >= maxReconnectAttempts

\* this.reconnectAttempts++, line 74
nextAttempt_Stuck(attempts) == attempts

nextAttempt(attempts) == attempts + 1

\* getProvider() returns this.provider (it throws otherwise), lines 97-102
getProviderReturns == provider # 0 /\ isConnected

\* isHealthy(), lines 122-124
isHealthy == isConnected /\ provider # 0

\* connect(), lines 20-56, up to the await of the confirmation: call k opens
\* session k, installs its error listener, starts timer k and waits
connect ==
  LET k == created + 1
  IN /\ created' = k
     /\ provider' = k
     /\ session' = [session EXCEPT ![k] = "open"]
     /\ timer' = [timer EXCEPT ![k] = "active"]
     /\ healthCheckInterval' = k
     /\ connectWait' = [connectWait EXCEPT ![k] = "waiting"]

\* reconnect(), lines 68-85, up to its first await; tm and hci are the timers
\* and this.healthCheckInterval as the calling handler left them
reconnect(tm, hci) ==
  IF reachedCeiling(reconnectAttempts)
    THEN /\ exitCode' = 1
         /\ fatalSignals' = fatalSignals + 1
         /\ timer' = tm
         /\ healthCheckInterval' = hci
         /\ UNCHANGED <<provider, reconnectAttempts, isConnected, session, destroying, sleeping>>
    ELSE /\ reconnectAttempts' = nextAttempt(reconnectAttempts)
         /\ isConnected' = FALSE
         /\ timer' = clearInterval(tm, hci)
         /\ healthCheckInterval' = 0
         /\ IF provider # 0
              THEN /\ session' = [session EXCEPT ![provider] = "destroyed"]
                   /\ destroying' = destroying + 1
                   /\ UNCHANGED sleeping
              ELSE /\ sleeping' = sleeping + 1
                   /\ UNCHANGED <<session, destroying>>
         /\ UNCHANGED <<provider, exitCode, fatalSignals>>

\* reconnect(), lines 86-93: destroy() settled; drop the reference, start the sleep
destroyDone ==
  /\ running
  /\ destroying > 0
  /\ destroying' = destroying - 1
  /\ provider' = 0
  /\ sleeping' = sleeping + 1
  /\ UNCHANGED <<healthCheckInterval, reconnectAttempts, isConnected, session, timer,
                 connectWait, created, probing, disconnecting, exitCode, fatalSignals, appVars>>
  /\ UNCHANGED <<cacheVars, dispatchVars, otherVars>>

\* reconnect(), line 94: the sleep is over, connect() is called
sleepOver_Forgets ==
  /\ running
  /\ sleeping > 0
  /\ created < MaxSessions
  /\ sleeping' = sleeping - 1
  /\ UNCHANGED <<provider, healthCheckInterval, session, timer, connectWait, created>>
  /\ UNCHANGED <<reconnectAttempts, isConnected, destroying, probing, disconnecting,
                 exitCode, fatalSignals, appVars>>
  /\ UNCHANGED <<cacheVars, dispatchVars, otherVars>>

sleepOver ==
  /\ running
  /\ sleeping > 0
  /\ created < MaxSessions
  /\ sleeping' = sleeping - 1
  /\ connect
  /\ UNCHANGED <<reconnectAttempts, isConnected, destroying, probing, disconnecting,
                 exitCode, fatalSignals, appVars>>
  /\ UNCHANGED <<cacheVars, dispatchVars, otherVars>>

\* startApplication awaits initializeRPC: past that await it calls connectToKafka
afterConnect(k) == IF k = 1 /\ appPc = "initRPC" THEN "kafka" ELSE appPc

\* connect(), lines 52-60: session k emitted its first 'block'
blockEvent(k) ==
  /\ running
  /\ connectWait[k] = "waiting"
  /\ session[k] = "open"
  /\ session' = [session EXCEPT ![k] = "live"]
  /\ connectWait' = [connectWait EXCEPT ![k] = "done"]
  /\ reconnectAttempts' = 0
  /\ isConnected' = TRUE
  /\ appPc' = afterConnect(k)
  /\ UNCHANGED <<provider, healthCheckInterval, timer, created, destroying, sleeping,
                 probing, disconnecting, exitCode, fatalSignals, kafkaProducer,
                 contractListeners, swapFilter>>
  /\ UNCHANGED <<cacheVars, dispatchVars, otherVars>>

\* connect(), lines 48-50 and 62-65: the confirmation timeout of call k fired
connectTimeout_Swallowed(k) ==
  /\ running
  /\ connectWait[k] = "waiting"
  /\ session[k] # "live"
  /\ connectWait' = [connectWait EXCEPT ![k] = "done"]
  /\ appPc' = afterConnect(k)
  /\ UNCHANGED <<provider, healthCheckInterval, reconnectAttempts, isConnected, session,
                 timer, destroying, sleeping, exitCode, fatalSignals>>
  /\ UNCHANGED <<created, probing, disconnecting, kafkaProducer, contractListeners, swapFilter>>
  /\ UNCHANGED <<cacheVars, dispatchVars, otherVars>>

connectTimeout(k) ==
  /\ running
  /\ connectWait[k] = "waiting"
  /\ session[k] # "live"
  /\ connectWait' = [connectWait EXCEPT ![k] = "done"]
  /\ reconnect(timer, healthCheckInterval)
  /\ appPc' = afterConnect(k)
  /\ UNCHANGED <<created, probing, disconnecting, kafkaProducer, contractListeners, swapFilter>>
  /\ UNCHANGED <<cacheVars, dispatchVars, otherVars>>

\* the 'error' listener of session s, lines 25-31
errorEvent(s) ==
  /\ running
  /\ session[s] \in {"open", "live"}
  /\ reconnect(clearInterval(timer, healthCheckInterval), healthCheckInterval)
  /\ UNCHANGED <<connectWait, created, probing, disconnecting, appVars>>
  /\ UNCHANGED <<cacheVars, dispatchVars, otherVars>>

\* the catch of the health probe, lines 37-43
probeCatch_Swallows ==
  /\ timer' = clearInterval(timer, healthCheckInterval)
  /\ healthCheckInterval' = 0
  /\ UNCHANGED <<provider, reconnectAttempts, isConnected, session, destroying, sleeping,
                 exitCode, fatalSignals>>

probeCatch ==
  reconnect(clearInterval(timer, healthCheckInterval), 0)

\* timer k fires, lines 34-36: getBlockNumber is sent on this.provider; with
\* no provider the call raises at once. A probe settles within one interval:
\* no tick while a probe is in flight.
probeFire(k) ==
  /\ running
  /\ timer[k] = "active"
  /\ probing = {}
  /\ IF provider = 0
       THEN /\ probeCatch
            /\ UNCHANGED probing
       ELSE /\ probing' = probing \cup {provider}
            /\ UNCHANGED <<provider, healthCheckInterval, reconnectAttempts, isConnected,
                           session, timer, destroying, sleeping, exitCode, fatalSignals>>
  /\ UNCHANGED <<connectWait, created, disconnecting, appVars>>
  /\ UNCHANGED <<cacheVars, dispatchVars, otherVars>>

\* the probe on session p was answered
probeOk(p) ==
  /\ running
  /\ p \in probing
  /\ session[p] \in {"open", "live"}
  /\ probing' = probing \ {p}
  /\ UNCHANGED <<provider, healthCheckInterval, reconnectAttempts, isConnected, session,
                 timer, connectWait, created, destroying, sleeping, disconnecting,
                 exitCode, fatalSignals, appVars>>
  /\ UNCHANGED <<cacheVars, dispatchVars, otherVars>>

\* the probe on session p failed, lines 37-43
probeFailed(p) ==
  /\ running
  /\ p \in probing
  /\ probing' = probing \ {p}
  /\ probeCatch
  /\ UNCHANGED <<connectWait, created, disconnecting, appVars>>
  /\ UNCHANGED <<cacheVars, dispatchVars, otherVars>>

(***************************************************************************)
(* The application around the manager: start-up, filters, shutdown.        *)
(***************************************************************************)
\* startApplication, index.ts:8-14, and initializeRPC, rpc/index.ts:293-296:
\* the manager is constructed and the first connect() is awaited
startApplication ==
  /\ running
  /\ appPc = "start"
  /\ appPc' = "initRPC"
  /\ connect
  /\ UNCHANGED <<reconnectAttempts, isConnected, destroying, sleeping, probing,
                 disconnecting, exitCode, fatalSignals, kafkaProducer,
                 contractListeners, swapFilter>>
  /\ UNCHANGED <<cacheVars, dispatchVars, otherVars>>

\* connectToKafka succeeded, index.ts:18-24; startFourMemeMonitoring starts
\* with initializeKafkaProducer, index.ts:460-463
connectToKafkaDone ==
  /\ running
  /\ appPc = "kafka"
  /\ appPc' = "producer"
  /\ kafkaProducer' = "connecting"
  /\ UNCHANGED <<rpcVars, contractListeners, swapFilter>>
  /\ UNCHANGED <<cacheVars, dispatchVars, otherVars>>

\* connectToKafka raised, kafka/client.ts:70-74; index.ts:32-35 exits with 1
connectToKafkaFailed ==
  /\ running
  /\ appPc = "kafka"
  /\ exitCode' = 1
  /\ UNCHANGED <<provider, healthCheckInterval, reconnectAttempts, isConnected, session,
                 timer, connectWait, created, destroying, sleeping, probing,
                 disconnecting, fatalSignals, appVars>>
  /\ UNCHANGED <<cacheVars, dispatchVars, otherVars>>

\* startFourMemeMonitoring past initializeKafkaProducer, index.ts:779-800:
\* getProvider() and the contract listeners on the session it returned
startFourMemeMonitoring == contractListeners' = contractListeners \cup {provider}

\* startPancakeSwapMonitoring, pancakeswap.ts:132-160: getProvider() and the
\* swap filter on the session it returned
startPancakeSwapMonitoring == swapFilter' = swapFilter \cup {provider}

\* index.ts:24-35: the two monitors start in the same turn of the event loop
\* (neither awaits I/O after the producer connect settled); a getProvider()
\* that throws ends the start with exit code 1
startMonitoring ==
  IF getProviderReturns
    THEN /\ startFourMemeMonitoring
         /\ startPancakeSwapMonitoring
         /\ appPc' = "running"
         /\ UNCHANGED exitCode
    ELSE /\ exitCode' = 1
         /\ UNCHANGED <<contractListeners, swapFilter, appPc>>

\* initializeKafkaProducer, index.ts:463-464: the producer connected
producerConnected ==
  /\ running
  /\ appPc = "producer"
  /\ kafkaProducer' = "connected"
  /\ startMonitoring
  /\ UNCHANGED <<provider, healthCheckInterval, reconnectAttempts, isConnected, session,
                 timer, connectWait, created, destroying, sleeping, probing,
                 disconnecting, fatalSignals>>
  /\ UNCHANGED <<cacheVars, dispatchVars, otherVars>>

\* initializeKafkaProducer, index.ts:465-468: the producer failed to connect
producerFailed ==
  /\ running
  /\ appPc = "producer"
  /\ kafkaProducer' = "null"
  /\ startMonitoring
  /\ UNCHANGED <<provider, healthCheckInterval, reconnectAttempts, isConnected, session,
                 timer, connectWait, created, destroying, sleeping, probing,
                 disconnecting, fatalSignals>>
  /\ UNCHANGED <<cacheVars, dispatchVars, otherVars>>

\* shutdownRPC past disconnect(), rpc/index.ts:302-304, then index.ts:49
shutdownDone ==
  /\ clearCache
  /\ exitCode' = 0

\* disconnect(), rpc/index.ts:104-114, up to the await of destroy()
disconnect ==
  /\ isConnected' = FALSE
  /\ timer' = clearInterval(timer, healthCheckInterval)
  /\ healthCheckInterval' = 0
  /\ session' = IF provider # 0 THEN [session EXCEPT ![provider] = "destroyed"] ELSE session

\* what calls shutdownApplication: SIGINT or SIGTERM (index.ts:53-54), or an
\* error that escaped every handler (uncaughtException, unhandledRejection,
\* index.ts:57-65)
ShutdownCauses == {"signal", "uncaught"}

\* shutdownApplication, index.ts:39-43, shutdownRPC and disconnect(), up to
\* the await of destroy()
shutdownApplication(cause) ==
  /\ running
  /\ appPc # "start"
  /\ disconnecting = 0
  /\ shutdownCause' = cause
  /\ disconnect
  /\ IF provider # 0
       THEN /\ disconnecting' = disconnecting + 1
            /\ UNCHANGED <<exitCode, cacheVars>>
       ELSE /\ shutdownDone
            /\ UNCHANGED disconnecting
  /\ UNCHANGED <<provider, reconnectAttempts, connectWait, created, destroying, sleeping,
                 probing, fatalSignals, appVars, dispatchVars, disconnects, backoff, decoding, producer>>

\* disconnect(), rpc/index.ts:115-119: destroy() settled; then the exit
disconnectDone ==
  /\ running
  /\ disconnecting > 0
  /\ disconnecting' = disconnecting - 1
  /\ provider' = 0
  /\ shutdownDone
  /\ UNCHANGED <<healthCheckInterval, reconnectAttempts, isConnected, session, timer,
                 connectWait, created, destroying, sleeping, probing, fatalSignals, appVars,
                 dispatchVars, otherVars>>

ConnNext ==
  \/ startApplication
  \/ \E k \in Sessions : blockEvent(k)
  \/ \E k \in Sessions : connectTimeout(k)
  \/ \E s \in Sessions : errorEvent(s)
  \/ \E k \in Sessions : probeFire(k)
  \/ \E p \in Sessions : probeOk(p)
  \/ \E p \in Sessions : probeFailed(p)
  \/ destroyDone
  \/ sleepOver
  \/ connectToKafkaDone
  \/ connectToKafkaFailed
  \/ producerConnected
  \/ producerFailed
  \/ shutdownApplication("signal")
  \/ disconnectDone


(***************************************************************************)
(* Event enrichment and dispatch: the listeners of setupEventListeners,    *)
(* the handlers and sendToKafka.                                           *)
(*                                                                         *)
(* The frame of one handler run:                                           *)
(*   pc       idle | blockTime (awaiting getBlockTimestamp) | aux (awaiting*)
(*            the auxiliary contract calls) | send (awaiting               *)
(*            kafkaProducer.send) | done (the listener finished)           *)
(*   argsOk   the raw arguments carry the fields the handler formats       *)
(*   price    args.price of a V2 trade, 0 otherwise                        *)
(*   signature  event.log.transactionHash, "none" when absent              *)
(*   supplyCalls  getTokenTotalSupply calls made for this log              *)
(*   marketCap  market_cap of the record                                   *)
(*   sends    kafkaProducer.send calls made for this log                   *)
(*   key      the key of the message passed to kafkaProducer.send          *)
(*   sent     outcome of the send: none | ok | failed                      *)
(*   raised   the handler raised; the listener caught and logged it        *)
(* lastOutcome is none | returned | sent | sendFailed | raised.            *)
(***************************************************************************)
TOKEN_RAW_CREATED == "token.raw.created"
TOKEN_RAW_TRADE == "token.raw.trade"
TOKEN_RAW_MIGRATED == "token.raw.migrated"

EventKinds == {"TokenCreate", "TokenPurchase", "TokenSale", "LiquidityAdded", "TradeStop"}
PublishedKinds == {"TokenCreate", "TokenPurchase", "TokenSale", "LiquidityAdded"}
Versions == {"V1", "V2"}
Prices == {0, 1}
\* the task that runs the handlers
HandlerTasks == {"t1"}
\* the block the dispatched logs belong to
LogBlocks == {1}
\* token addresses
Tokens == {"0xB"}

\* transaction hashes of the logs; "none" is a log without one
Signatures == {"0xS", "none"}
\* what getTokenTotalSupply resolves to, in the unit formatToken yields; NULL
\* when the call failed (index.ts getTokenTotalSupply catches and returns null)
Supplies == {NULL, 2}
\* handleTokenPurchase, index.ts:549: the supply assumed instead of the call
assumedSupply == 1

IdleHandler ==
  [pc |-> "idle", kind |-> "none", version |-> "none", token |-> "none", argsOk |-> TRUE,
   price |-> 0, signature |-> "none", supplyCalls |-> 0, marketCap |-> 0,
   topic |-> "none", key |-> "none", sends |-> 0, sent |-> "none", raised |-> FALSE,
   supply |-> NULL, founderOk |-> FALSE, pairOk |-> FALSE,
   migratorWallet |-> "none", liquidityPool |-> "none"]

HandlersInit ==
  /\ handler = [t \in Tasks |-> IdleHandler]
  /\ createdTokens = <<>>
  /\ lastOutcome = "none"

\* the topic a handler passes to sendToKafka, index.ts:526, 582, 637, 692
topicOf_AllTrade(kind) == TOKEN_RAW_TRADE

topicOf(kind) ==
  CASE kind = "TokenCreate" -> TOKEN_RAW_CREATED
    [] kind = "TokenPurchase" -> TOKEN_RAW_TRADE
    [] kind = "TokenSale" -> TOKEN_RAW_TRADE
    [] kind = "LiquidityAdded" -> TOKEN_RAW_MIGRATED
    [] OTHER -> "none"

\* setupEventListeners, index.ts:716-769: LiquidityAdded and TradeStop are
\* listened for on the V2 contract only
listenedFor(kind, ver) == kind \in {"LiquidityAdded", "TradeStop"} => ver = "V2"

\* sendToKafka, index.ts:473: if (!kafkaProducer) return
producerAvailable_Never == FALSE

producerAvailable == kafkaProducer = "connected"

\* sendToKafka, index.ts:483: event.token_mint || event.signature || random
keyOf(token_mint, signature) ==
  IF token_mint # "none" THEN token_mint
  ELSE IF signature # "none" THEN signature
  ELSE "random"

\* calculateMarketCap, utils/helpers.ts:47-49
calculateMarketCap(price, supply) == price * supply

\* handleTokenSale, index.ts:596-599 (handleTokenPurchase: 543-546): the
\* supply is looked up only for a V2 log with a price above zero
pricedV2_IgnoresPrice(h) == h.version = "V2"

pricedV2(h) == h.version = "V2" /\ h.price > 0

\* handleTokenSale awaits getTokenTotalSupply, index.ts:599-604
\* (handleTokenPurchase has the call commented out, index.ts:548-549)
awaitsSupply(h) == h.kind = "TokenSale" /\ pricedV2(h)

\* the handler awaits auxiliary contract calls before it builds the record:
\* getTokenTotalSupply, or founder() and pair() in handleLiquidityAdded,
\* index.ts:666-669
awaitsAuxiliary(h) == awaitsSupply(h) \/ h.kind = "LiquidityAdded"

\* market_cap of a trade record, index.ts:540-558 and 596-612; supply is what
\* the auxiliary call resolved to
marketCapOf(h, supply) ==
  IF h.kind = "TokenPurchase" /\ pricedV2(h)
    THEN calculateMarketCap(h.price, assumedSupply)
  ELSE IF awaitsSupply(h) /\ supply # NULL
    THEN calculateMarketCap(h.price, supply)
  ELSE 0

\* the catch of a listener, index.ts:720-725: the error is logged and the
\* listener's run ends
listenerCatch_Rethrows(h) == [h EXCEPT !.pc = "rejected", !.raised = TRUE]

listenerCatch(h) == [h EXCEPT !.pc = "done", !.raised = TRUE]

\* handleTokenCreate appends the new token to the index before it publishes,
\* index.ts:518-521; no other handler touches createdTokens
pushCreated_WhenPublishable(tokens, h) ==
  IF h.kind = "TokenCreate" /\ producerAvailable THEN Append(tokens, h.token) ELSE tokens

pushCreated(tokens, h) ==
  IF h.kind = "TokenCreate" THEN Append(tokens, h.token) ELSE tokens

\* the record is built from the frame e, which holds what the auxiliary calls
\* resolved to (TokenCreate: and appended to createdTokens, index.ts:518-521),
\* then sendToKafka, index.ts:472-487, up to its await
buildAndSend(t, e) ==
  /\ createdTokens' = pushCreated(createdTokens, e)
  /\ LET h == [e EXCEPT !.marketCap = marketCapOf(e, e.supply)]
     IN handler' = [handler EXCEPT ![t] =
          IF producerAvailable
            THEN [h EXCEPT !.pc = "send", !.topic = topicOf(h.kind),
                           !.key = keyOf(h.token, h.signature), !.sends = @ + 1]
            ELSE [h EXCEPT !.pc = "done"]]

\* a listener of setupEventListeners receives a log, index.ts:717-768, and
\* runs its handler up to the first await: handleTradeStop (index.ts:697-707)
\* to its end, the others through getProvider() to getBlockTimestamp
logDelivered(t, kind, ver, tok, sig, ok, price, b) ==
  /\ running
  /\ handler[t].pc = "idle"
  /\ call[t].pc = "idle"
  /\ \E s \in contractListeners : session[s] = "live"
  /\ listenedFor(kind, ver)
  /\ price > 0 => (ver = "V2" /\ kind \in {"TokenPurchase", "TokenSale"})
  /\ kind = "TokenCreate" => Len(createdTokens) < MaxCreatedTokens
  /\ LET h == [IdleHandler EXCEPT !.kind = kind, !.version = ver, !.token = tok,
                                  !.signature = sig, !.argsOk = ok, !.price = price]
     IN IF kind = "TradeStop"
          THEN /\ handler' = [handler EXCEPT ![t] = [h EXCEPT !.pc = "done"]]
               /\ UNCHANGED call
          ELSE IF getProviderReturns
            THEN /\ handler' = [handler EXCEPT ![t] = [h EXCEPT !.pc = "blockTime"]]
                 /\ call' = [call EXCEPT ![t] = getBlockTimestamp(b)]
            ELSE /\ handler' = [handler EXCEPT ![t] = listenerCatch(h)]
                 /\ UNCHANGED call
  /\ UNCHANGED <<blockTimestamps, maxRetries, insertedKeys, monotone, createdTokens,
                 lastOutcome, connVars, otherVars>>

\* getBlockTimestamp returned, e.g. index.ts:500-501: the handler formats the
\* arguments (raising when they are missing) and either awaits its auxiliary
\* calls or builds and sends the record
blockTimeResolved(t) ==
  /\ running
  /\ handler[t].pc = "blockTime"
  /\ call[t].pc = "done"
  /\ call' = [call EXCEPT ![t] = IdleCall]
  /\ IF ~handler[t].argsOk
       THEN /\ handler' = [handler EXCEPT ![t] = listenerCatch(@)]
            /\ UNCHANGED createdTokens
       ELSE IF awaitsAuxiliary(handler[t])
         THEN /\ handler' = [handler EXCEPT ![t].pc = "aux",
                               ![t].supplyCalls = IF awaitsSupply(handler[t]) THEN @ + 1 ELSE @]
              /\ UNCHANGED createdTokens
         ELSE buildAndSend(t, handler[t])
  /\ UNCHANGED <<blockTimestamps, maxRetries, insertedKeys, monotone, lastOutcome, connVars, otherVars>>

\* getTokenTotalSupply settled, resolved to supply or failed (NULL),
\* index.ts:604-611: the failure is caught, the record is built all the same
auxSettled_Propagates(t, supply) ==
  /\ running
  /\ handler[t].pc = "aux"
  /\ awaitsSupply(handler[t])
  /\ IF supply = NULL
       THEN /\ handler' = [handler EXCEPT ![t] = listenerCatch(@)]
            /\ UNCHANGED createdTokens
       ELSE buildAndSend(t, [handler[t] EXCEPT !.supply = supply])
  /\ UNCHANGED <<lastOutcome, cacheVars, connVars, otherVars>>

auxSettled(t, supply) ==
  /\ running
  /\ handler[t].pc = "aux"
  /\ awaitsSupply(handler[t])
  /\ buildAndSend(t, [handler[t] EXCEPT !.supply = supply])
  /\ UNCHANGED <<lastOutcome, cacheVars, connVars, otherVars>>

\* what the token contract's founder() and pair() answer
FOUNDER == "0xF"
PAIR == "0xP"

\* handleLiquidityAdded, index.ts:654-675: founder() and pair() are awaited
\* together by one Promise.all inside one try, so both results are assigned
\* only when both calls succeeded
contractDataSettled(t, fOk, pOk) ==
  /\ running
  /\ handler[t].pc = "aux"
  /\ handler[t].kind = "LiquidityAdded"
  /\ buildAndSend(t, [handler[t] EXCEPT
        !.founderOk = fOk, !.pairOk = pOk,
        !.migratorWallet = IF fOk /\ pOk THEN FOUNDER ELSE "N/A",
        !.liquidityPool = IF fOk /\ pOk THEN PAIR ELSE "N/A"])
  /\ UNCHANGED <<lastOutcome, cacheVars, connVars, otherVars>>

\* clearCreatedTokens, index.ts:803-805
clearCreatedTokens ==
  /\ running
  /\ createdTokens # <<>>
  /\ createdTokens' = <<>>
  /\ UNCHANGED <<handler, lastOutcome, cacheVars, connVars, otherVars>>

\* kafkaProducer.send resolved, index.ts:488
sendOk(t) ==
  /\ running
  /\ handler[t].pc = "send"
  /\ handler' = [handler EXCEPT ![t].pc = "done", ![t].sent = "ok"]
  /\ UNCHANGED <<createdTokens, lastOutcome, cacheVars, connVars, otherVars>>

\* kafkaProducer.send raised; sendToKafka catches it, index.ts:489-491, and
\* the handler returns its record
sendFailed_Propagates(t) ==
  /\ running
  /\ handler[t].pc = "send"
  /\ handler' = [handler EXCEPT ![t] = listenerCatch([@ EXCEPT !.sent = "failed"])]
  /\ UNCHANGED <<createdTokens, lastOutcome, cacheVars, connVars, otherVars>>

sendFailed(t) ==
  /\ running
  /\ handler[t].pc = "send"
  /\ handler' = [handler EXCEPT ![t].pc = "done", ![t].sent = "failed"]
  /\ UNCHANGED <<createdTokens, lastOutcome, cacheVars, connVars, otherVars>>

\* how a finished listener run ended
outcomeOf(h) ==
  IF h.raised THEN "raised"
  ELSE IF h.sent = "ok" THEN "sent"
  ELSE IF h.sent = "failed" THEN "sendFailed"
  ELSE "returned"

\* the listener's promise settled; the task is free for the next log
handlerReturned(t) ==
  /\ running
  /\ handler[t].pc = "done"
  /\ handler' = [handler EXCEPT ![t] = IdleHandler]
  /\ lastOutcome' = outcomeOf(handler[t])
  /\ UNCHANGED <<createdTokens, cacheVars, connVars, otherVars>>

\* the application once start-up has completed on session 1 (a state ConnSpec
\* reaches), the producer connected or not
DispatchInit ==
  /\ CacheInit
  /\ maxRetries = maxRetriesDefault
  /\ HandlersInit
  /\ OthersInit
  /\ provider = 1
  /\ healthCheckInterval = 1
  /\ reconnectAttempts = 0
  /\ isConnected = TRUE
  /\ session = [s \in Sessions |-> IF s = 1 THEN "live" ELSE "none"]
  /\ timer = [s \in Sessions |-> IF s = 1 THEN "active" ELSE "none"]
  /\ connectWait = [s \in Sessions |-> IF s = 1 THEN "done" ELSE "none"]
  /\ created = 1
  /\ destroying = 0
  /\ sleeping = 0
  /\ probing = {}
  /\ disconnecting = 0
  /\ exitCode = NULL
  /\ fatalSignals = 0
  /\ appPc = "running"
  /\ kafkaProducer \in {"connected", "null"}
  /\ contractListeners = {1}
  /\ swapFilter = {1}

\* The handlers, the provider answers they wait for, and the loss of the
\* session or the shutdown (by a signal or by an error that escaped every
\* handler) under them. Once the session is lost no listener
\* is on a live session again, so the reconnect that follows starts no handler.
DispatchNext ==
  \/ \E t \in HandlerTasks, kind \in EventKinds, ver \in Versions, tok \in Tokens,
        sig \in Signatures, ok \in BOOLEAN, price \in Prices, b \in LogBlocks :
          logDelivered(t, kind, ver, tok, sig, ok, price, b)
  \/ \E t \in HandlerTasks : blockTimeResolved(t)
  \/ \E t \in HandlerTasks, supply \in Supplies : auxSettled(t, supply)
  \/ \E t \in HandlerTasks, fOk \in BOOLEAN, pOk \in BOOLEAN : contractDataSettled(t, fOk, pOk)
  \/ clearCreatedTokens
  \/ \E t \in HandlerTasks : sendOk(t)
  \/ \E t \in HandlerTasks : sendFailed(t)
  \/ \E t \in HandlerTasks : handlerReturned(t)
  \/ \E t \in HandlerTasks, sec \in Timestamps : getBlockFound(t, sec)
  \/ \E t \in HandlerTasks : getBlockAbsent(t)
  \/ \E t \in HandlerTasks : getBlockError(t)
  \/ \E t \in HandlerTasks : sleepDone(t)
  \/ \E s \in Sessions : errorEvent(s)
  \/ destroyDone
  \/ \E cause \in ShutdownCauses : shutdownApplication(cause)
  \/ disconnectDone

DispatchSpec == DispatchInit /\ [][DispatchNext]_vars

(***************************************************************************)
(* disconnect(), src/src/rpc/index.ts:104-120, called twice in a row on a  *)
(* manager in any state of its fields.                                     *)
(*   disconnects.pc     idle | destroying (awaiting provider.destroy())    *)
(*   disconnects.calls  calls that returned                                *)
(*   disconnects.failed a call raised                                      *)
(*   disconnects.first  the manager as the first call left it              *)
(***************************************************************************)
\* the fields of the manager and what they refer to
managerState == <<provider, healthCheckInterval, isConnected, session, timer>>

\* disconnect() returned
disconnectReturned(after) ==
  disconnects' = [disconnects EXCEPT
    !.pc = "idle",
    !.calls = @ + 1,
    !.first = IF disconnects.calls = 0 THEN after ELSE @]

\* disconnect(), lines 104-114: up to the await of destroy(), or to the end
\* when there is no provider
disconnectCalled ==
  /\ disconnects.pc = "idle"
  /\ disconnects.calls < 2
  /\ disconnect
  /\ IF provider # 0
       THEN disconnects' = [disconnects EXCEPT !.pc = "destroying"]
       ELSE disconnectReturned(<<provider, healthCheckInterval', isConnected', session', timer'>>)
  /\ UNCHANGED <<provider, reconnectAttempts, connectWait, created, destroying, sleeping,
                 probing, disconnecting, exitCode, fatalSignals, appVars>>
  /\ UNCHANGED <<cacheVars, dispatchVars, shutdownCause, backoff, decoding, producer>>

\* disconnect(), lines 115-118: destroy() resolved
destroyResolved ==
  /\ disconnects.pc = "destroying"
  /\ provider' = 0
  /\ disconnectReturned(<<0, healthCheckInterval, isConnected, session, timer>>)
  /\ UNCHANGED <<healthCheckInterval, reconnectAttempts, isConnected, session, timer,
                 connectWait, created, destroying, sleeping, probing, disconnecting,
                 exitCode, fatalSignals, appVars>>
  /\ UNCHANGED <<cacheVars, dispatchVars, shutdownCause, backoff, decoding, producer>>

\* disconnect(), lines 115-118: destroy() raised; the catch ignores it
destroyThrew_Propagates ==
  /\ disconnects.pc = "destroying"
  /\ disconnects' = [disconnects EXCEPT !.pc = "idle", !.calls = @ + 1, !.failed = TRUE]
  /\ UNCHANGED <<provider, healthCheckInterval, reconnectAttempts, isConnected, session, timer,
                 connectWait, created, destroying, sleeping, probing, disconnecting,
                 exitCode, fatalSignals, appVars>>
  /\ UNCHANGED <<cacheVars, dispatchVars, shutdownCause, backoff, decoding, producer>>

destroyThrew ==
  /\ disconnects.pc = "destroying"
  /\ provider' = 0
  /\ disconnectReturned(<<0, healthCheckInterval, isConnected, session, timer>>)
  /\ UNCHANGED <<healthCheckInterval, reconnectAttempts, isConnected, session, timer,
                 connectWait, created, destroying, sleeping, probing, disconnecting,
                 exitCode, fatalSignals, appVars>>
  /\ UNCHANGED <<cacheVars, dispatchVars, shutdownCause, backoff, decoding, producer>>

\* the manager in any state of its fields: the session and the timer it
\* refers to, if any, connected or not, after any number of attempts
DisconnectSpecInit ==
  /\ CacheInit
  /\ maxRetries = maxRetriesDefault
  /\ HandlersInit
  /\ OthersInit
  /\ provider \in Sessions \cup {0}
  /\ healthCheckInterval \in Sessions \cup {0}
  /\ isConnected \in BOOLEAN
  /\ reconnectAttempts \in 0..maxReconnectAttempts
  /\ \E st \in {"open", "live", "destroyed"} :
       session = [s \in Sessions |-> IF s = provider THEN st ELSE "none"]
  /\ timer = [s \in Sessions |-> IF s = healthCheckInterval THEN "active" ELSE "none"]
  /\ connectWait = [s \in Sessions |-> "none"]
  /\ created = MaxSessions
  /\ destroying = 0
  /\ sleeping = 0
  /\ probing = {}
  /\ disconnecting = 0
  /\ exitCode = NULL
  /\ fatalSignals = 0
  /\ appPc = "running"
  /\ kafkaProducer = "connected"
  /\ contractListeners = {}
  /\ swapFilter = {}

DisconnectNext ==
  \/ disconnectCalled
  \/ destroyResolved
  \/ destroyThrew

DisconnectSpec == DisconnectSpecInit /\ [][DisconnectNext]_vars

(***************************************************************************)
(* calculateBackoffDelay, src/src/utils/helpers.ts:29-32, applied to the   *)
(* attempts 1, 2, ... of one run with a base delay and a cap.              *)
(*   backoff.delay     the delay of backoff.attempt                        *)
(*   backoff.previous  the delay of the attempt before, NULL for the first *)
(***************************************************************************)
\* the base delays and the caps of the runs
BaseDelays == 0..3
MaxDelays == 0..8

RECURSIVE Pow2(_)
\* Math.pow(2, n) for a natural n
Pow2(n) == IF n = 0 THEN 1 ELSE 2 * Pow2(n - 1)

\* Math.min
MathMin(a, b) == IF a <= b THEN a ELSE b

\* calculateBackoffDelay, helpers.ts:30-32
calculateBackoffDelay_Uncapped(attempt, baseDelay, maxDelay) == baseDelay * Pow2(attempt - 1)

calculateBackoffDelay(attempt, baseDelay, maxDelay) ==
  MathMin(baseDelay * Pow2(attempt - 1), maxDelay)

\* the first attempt of a run
BackoffRuns ==
  {[attempt |-> 1, baseDelay |-> b, maxDelay |-> m,
    delay |-> calculateBackoffDelay(1, b, m), previous |-> NULL] :
      b \in BaseDelays, m \in MaxDelays}

\* the next attempt of the run
backoffNextAttempt ==
  /\ backoff.attempt >= 1
  /\ backoff.attempt < MaxBackoffAttempt
  /\ backoff' = [backoff EXCEPT
       !.attempt = @ + 1,
       !.previous = backoff.delay,
       !.delay = calculateBackoffDelay(backoff.attempt + 1, backoff.baseDelay, backoff.maxDelay)]
  /\ UNCHANGED <<cacheVars, connVars, dispatchVars, shutdownCause, disconnects, decoding, producer>>

BackoffSpecInit ==
  /\ CacheInit
  /\ maxRetries = maxRetriesDefault
  /\ ConnInit
  /\ HandlersInit
  /\ shutdownCause = "none"
  /\ disconnects = IdleDisconnects
  /\ decoding = IdleDecoding
  /\ producer = IdleProducer
  /\ backoff \in BackoffRuns

BackoffNext == backoffNextAttempt

BackoffSpec == BackoffSpecInit /\ [][BackoffNext]_vars

(***************************************************************************)
(* The record handleTokenCreate builds, src/src/index.ts:495-515, from one *)
(* raw log, from what getBlockTimestamp resolved to for its block and from *)
(* the wall clock; the same log is decoded again at a later time.          *)
(*   decoding.pc             idle | decoding                               *)
(*   decoding.log            the raw log: named and positional arguments   *)
(*   decoding.blockTimestamp what getBlockTimestamp resolves to (ms), NULL *)
(*   decoding.now            Date.now(), ms                                *)
(*   decoding.records        the records built so far                      *)
(***************************************************************************)
\* a string argument of the raw log: undefined (absent), empty, or a name
UNDEFINED == "undefined"
StringArgs == {UNDEFINED, "", "Tok", "Alt"}
\* a bigint argument of the raw log: NULL (absent), 0n or an amount
BigintArgs == {NULL, 0, 1, 2}
\* the readings of Date.now(), ms
Clock == {5000, 5600, 6200}
\* the decimals formatToken applies by default, helpers.ts:10
tokenDecimals == 18

\* a || b on strings, index.ts:505: a unless a is undefined or ""
orString(a, b) == IF a \notin {UNDEFINED, ""} THEN a ELSE b

\* a || b on bigints, index.ts:510: a unless a is undefined or 0n
orBigint(a, b) == IF a \notin {NULL, 0} THEN a ELSE b

\* ethers.formatUnits(value, decimals): the decimal string of
\* value / 10^decimals, kept as the pair that determines it
formatUnits(value, decimals) == [value |-> value, decimals |-> decimals]

\* formatToken, helpers.ts:10-12
formatToken(value) == formatUnits(value, tokenDecimals)

\* ethers.formatUnits raises on a value that is no BigNumberish (undefined)
formatTokenThrows(value) == value = NULL

\* Math.floor(ms / 1000)
floorSeconds(ms) == ms \div 1000

\* blockTimestamp ? Math.floor(blockTimestamp / 1000)
\*                : Math.floor(Date.now() / 1000), index.ts:501
blockTimeOf(blockTimestamp, now) ==
  IF blockTimestamp \notin {NULL, 0} THEN floorSeconds(blockTimestamp) ELSE floorSeconds(now)

\* generateKafkaTimestamp, helpers.ts:20-22: new Date().toISOString(), the
\* ISO-8601 text of the clock reading, kept as the reading it spells
generateKafkaTimestamp(now) == [iso |-> now]

\* what a handler that raised leaves: no record
NoRecord ==
  [raised |-> TRUE, token_name |-> UNDEFINED, initial_supply |-> formatToken(0),
   block_time |-> 0, slot |-> 0, signature |-> "none", kafka_timestamp |-> generateKafkaTimestamp(0)]

\* tokenData of handleTokenCreate, index.ts:503-515
tokenData(log, blockTimestamp, now) ==
  LET totalSupply == orBigint(log.totalSupply, log.arg5)
  IN IF formatTokenThrows(totalSupply)
       THEN NoRecord
       ELSE [raised |-> FALSE,
             token_name |-> orString(log.name, log.arg3),
             initial_supply |-> formatToken(totalSupply),
             block_time |-> blockTimeOf(blockTimestamp, now),
             slot |-> log.blockNumber,
             signature |-> log.transactionHash,
             kafka_timestamp |-> generateKafkaTimestamp(now)]

\* the raw creation logs
RawLogs ==
  [name : StringArgs, arg3 : StringArgs, totalSupply : BigintArgs, arg5 : BigintArgs,
   blockNumber : LogBlocks, transactionHash : {"0xS"}]

\* handleTokenCreate builds the record of the log, index.ts:495-515
decodeLog ==
  /\ decoding.pc = "decoding"
  /\ Len(decoding.records) < 2
  /\ decoding' = [decoding EXCEPT
        !.records = Append(@, tokenData(decoding.log, decoding.blockTimestamp, decoding.now))]
  /\ UNCHANGED <<cacheVars, connVars, dispatchVars, shutdownCause, disconnects, backoff, producer>>

\* time passes
clockAdvances ==
  /\ decoding.pc = "decoding"
  /\ \E later \in Clock :
       /\ later > decoding.now
       /\ decoding' = [decoding EXCEPT !.now = later]
  /\ UNCHANGED <<cacheVars, connVars, dispatchVars, shutdownCause, disconnects, backoff, producer>>

DecodeSpecInit ==
  /\ CacheInit
  /\ maxRetries = maxRetriesDefault
  /\ ConnInit
  /\ HandlersInit
  /\ shutdownCause = "none"
  /\ disconnects = IdleDisconnects
  /\ backoff = IdleBackoff
  /\ producer = IdleProducer
  /\ \E log \in RawLogs, ts \in {NULL} \cup {toMillis(sec) : sec \in Timestamps} :
       decoding = [pc |-> "decoding", log |-> log, blockTimestamp |-> ts, now |-> 5000, records |-> <<>>]

DecodeNext == decodeLog \/ clockAdvances

DecodeSpec == DecodeSpecInit /\ [][DecodeNext]_vars

(***************************************************************************)
(* The Kafka producer module (unnamed/part_002): one module-level          *)
(* producerInstance, made lazily by getProducer and dropped by             *)
(* disconnectProducer; sendRawTokenEvent is called by several callers that *)
(* may be in flight at once.                                               *)
(*   producer.producerInstance     0 (null) or the number of the instance  *)
(*   producer.made                 instances made by kafkaClient.producer()*)
(*   producer.madeSinceDisconnect  those made since disconnectProducer was *)
(*                                 last called                             *)
(*   producer.connected            instances whose connect() resolved      *)
(*   producer.disconnecting        the instance disconnectProducer awaits  *)
(*   producer.sender[s]            pc: idle | connecting | sending; the    *)
(*                                 instance awaited or sent on; ready: the *)
(*                                 instance was connected when send was    *)
(*                                 called                                  *)
(***************************************************************************)

\* the producers kafkaClient.producer() makes in one run
MaxProducers == 3

\* producer.send is called on instance i, part_002:31-39
sendOn(i) == [pc |-> "sending", instance |-> i, ready |-> i \in producer.connected]

\* sendRawTokenEvent with producerInstance null: getProducer makes the
\* instance, assigns it and awaits its connect(), part_002:11-13
getProducerCreates(s) ==
  /\ producer.sender[s].pc = "idle"
  /\ producer.producerInstance = 0
  /\ producer.made < MaxProducers
  /\ producer' = [producer EXCEPT
        !.producerInstance = producer.made + 1,
        !.made = @ + 1,
        !.madeSinceDisconnect = @ + 1,
        !.sender[s] = [pc |-> "connecting", instance |-> producer.made + 1, ready |-> FALSE]]
  /\ UNCHANGED <<cacheVars, connVars, dispatchVars, shutdownCause, disconnects, backoff, decoding>>

\* sendRawTokenEvent with producerInstance set: getProducer returns it
\* without awaiting and send is called on it, part_002:11, 16, 29-31
getProducerReuses(s) ==
  /\ producer.sender[s].pc = "idle"
  /\ producer.producerInstance # 0
  /\ producer' = [producer EXCEPT !.sender[s] = sendOn(producer.producerInstance)]
  /\ UNCHANGED <<cacheVars, connVars, dispatchVars, shutdownCause, disconnects, backoff, decoding>>

\* the awaited connect() resolved: getProducer returns what producerInstance
\* holds now, part_002:13-16; send on null raises into the catch, 42-45
connectResolved(s) ==
  /\ producer.sender[s].pc = "connecting"
  /\ LET i == producer.sender[s].instance
         nowConnected == producer.connected \cup {i}
         p == producer.producerInstance
     IN producer' = [producer EXCEPT
          !.connected = nowConnected,
          !.sender[s] = IF p = 0 THEN IdleSender
                        ELSE [pc |-> "sending", instance |-> p, ready |-> p \in nowConnected]]
  /\ UNCHANGED <<cacheVars, connVars, dispatchVars, shutdownCause, disconnects, backoff, decoding>>

\* the awaited connect() rejected: sendRawTokenEvent logs and returns,
\* producerInstance keeps the instance, part_002:13, 42-45
connectRejected(s) ==
  /\ producer.sender[s].pc = "connecting"
  /\ producer' = [producer EXCEPT !.sender[s] = IdleSender]
  /\ UNCHANGED <<cacheVars, connVars, dispatchVars, shutdownCause, disconnects, backoff, decoding>>

\* the awaited send settled, resolved or rejected: sendRawTokenEvent returns,
\* part_002:31-45
sendSettled(s) ==
  /\ producer.sender[s].pc = "sending"
  /\ producer' = [producer EXCEPT !.sender[s] = IdleSender]
  /\ UNCHANGED <<cacheVars, connVars, dispatchVars, shutdownCause, disconnects, backoff, decoding>>

\* disconnectProducer with producerInstance set awaits its disconnect(),
\* part_002:52-53; with producerInstance null it does nothing
disconnectProducer ==
  /\ producer.disconnecting = 0
  /\ producer.producerInstance # 0
  /\ producer' = [producer EXCEPT
        !.disconnecting = producer.producerInstance,
        !.madeSinceDisconnect = 0]
  /\ UNCHANGED <<cacheVars, connVars, dispatchVars, shutdownCause, disconnects, backoff, decoding>>

\* the awaited disconnect() resolved: producerInstance is dropped,
\* part_002:54
producerDisconnected ==
  /\ producer.disconnecting # 0
  /\ producer' = [producer EXCEPT !.disconnecting = 0, !.producerInstance = 0]
  /\ UNCHANGED <<cacheVars, connVars, dispatchVars, shutdownCause, disconnects, backoff, decoding>>

\* the awaited disconnect() rejected: disconnectProducer raises and
\* producerInstance keeps the instance, part_002:53
producerDisconnectFailed ==
  /\ producer.disconnecting # 0
  /\ producer' = [producer EXCEPT !.disconnecting = 0]
  /\ UNCHANGED <<cacheVars, connVars, dispatchVars, shutdownCause, disconnects, backoff, decoding>>

ProducerNext ==
  \/ \E s \in Senders : getProducerCreates(s)
  \/ \E s \in Senders : getProducerReuses(s)
  \/ \E s \in Senders : connectResolved(s)
  \/ \E s \in Senders : connectRejected(s)
  \/ \E s \in Senders : sendSettled(s)
  \/ disconnectProducer
  \/ producerDisconnected
  \/ producerDisconnectFailed

\* the producer module on its own: cache, manager and handlers stay as
\* constructed
ProducerSpecInit == CacheInit /\ maxRetries = maxRetriesDefault /\ ConnInit /\ HandlersInit /\ OthersInit

ProducerSpec == ProducerSpecInit /\ [][ProducerNext]_vars

\* the cache on its own: the manager stays as constructed
CacheSpecInit == CacheInit /\ ConnInit /\ HandlersInit /\ OthersInit

CacheSpec == CacheSpecInit /\ [][CacheNext]_vars

\* the handlers pass no maxRetries: the default applies
ConnSpecInit == CacheInit /\ maxRetries = maxRetriesDefault /\ ConnInit /\ HandlersInit /\ OthersInit

ConnSpec == ConnSpecInit /\ [][ConnNext]_vars

(***************************************************************************)
(* The manager on its own, under fair scheduling: the application awaits   *)
(* initializeRPC and then leaves the manager alone (no shutdown). The      *)
(* network fails the manager (transport errors, failed probes, sessions    *)
(* that emit no block) only while a session is left for the connect() that *)
(* each reconnect ends in, or when the reconnect is the fatal one.         *)
(***************************************************************************)
\* a reconnect() called now can run to its connect(), or exits
lossWithin ==
  \/ created + destroying + sleeping < MaxSessions
  \/ reconnectAttempts >= maxReconnectAttempts

\* rpc/index.ts:25-31
errorEventWithin(s) == lossWithin /\ errorEvent(s)

\* rpc/index.ts:37-43
probeFailedWithin(p) == lossWithin /\ probeFailed(p)

\* rpc/index.ts:34-36
probeFireWithin(k) == (provider = 0 => lossWithin) /\ probeFire(k)

\* rpc/index.ts:48-50, 62-65
connectTimeoutWithin(k) == lossWithin /\ connectTimeout(k)

ConnFairNext ==
  \/ startApplication
  \/ \E k \in Sessions : blockEvent(k)
  \/ \E k \in Sessions : connectTimeoutWithin(k)
  \/ \E s \in Sessions : errorEventWithin(s)
  \/ \E k \in Sessions : probeFireWithin(k)
  \/ \E p \in Sessions : probeOk(p)
  \/ \E p \in Sessions : probeFailedWithin(p)
  \/ destroyDone
  \/ sleepOver

\* destroy() settles, the reconnect delay elapses, and the wait of a
\* connect() ends: with the first block or with the confirmation timeout
ConnFairness ==
  /\ WF_vars(destroyDone)
  /\ WF_vars(sleepOver)
  /\ \A k \in Sessions : WF_vars(blockEvent(k) \/ connectTimeoutWithin(k))

ConnFairSpec == ConnSpecInit /\ [][ConnFairNext]_vars /\ ConnFairness



\* the provider answers every getBlock call and every backoff timer fires
CacheFairness ==
  \A t \in Tasks :
    /\ WF_vars((\E s \in Timestamps : getBlockFound(t, s)) \/ getBlockAbsent(t) \/ getBlockError(t))
    /\ WF_vars(sleepDone(t))

\* the steps of the cache with one value of block.timestamp: which timestamp
\* a block carries has no part in the retry loop
CacheFairNext ==
  \/ \E t \in Tasks, b \in Blocks : callGetBlockTimestamp(t, b)
  \/ \E t \in Tasks : getBlockFound(t, MaxOf(Timestamps))
  \/ \E t \in Tasks : getBlockAbsent(t)
  \/ \E t \in Tasks : getBlockError(t)
  \/ \E t \in Tasks : sleepDone(t)
  \/ \E t \in Tasks : callReturned(t)
  \/ clearCacheCall

CacheFairSpec == CacheSpecInit /\ [][CacheFairNext]_vars /\ CacheFairness

(***************************************************************************)
(* Properties of the block-timestamp cache.                                *)
(***************************************************************************)
MinOf(S) == CHOOSE x \in S : \A y \in S : x <= y

\* the n largest elements of S
RECURSIVE Largest(_, _)
Largest(S, n) ==
  IF n = 0 \/ S = {} THEN {} ELSE {MaxOf(S)} \cup Largest(S \ {MaxOf(S)}, n - 1)

\* task t completes a fetch with a block in this step (the insert step)
InsertStep(t) ==
  /\ call[t].pc = "fetch"
  /\ call'[t].pc = "done"
  /\ call'[t].result # NULL

\* C1: in every state between two steps of the tasks (every await boundary),
\* under any interleaving of getBlockTimestamp calls and clearCache, the cache
\* holds at most maxCacheSize entries.
C1_CapacityBound == Cardinality(DOMAIN blockTimestamps) <= maxCacheSize

\* the cache is full while another task's fetch for an uncached block is in flight
C1_Witness ==
  /\ Cardinality(DOMAIN blockTimestamps) = maxCacheSize
  /\ \E t \in Tasks : call[t].pc = "fetch" /\ call[t].blockNumber \notin DOMAIN blockTimestamps
  /\ \E t \in Tasks : call[t].pc = "done" /\ ~call[t].hit /\ call[t].result # NULL

\* C2: an insert that makes the size exceed the capacity evicts exactly one
\* entry, the smallest block number among all entries including the inserted
\* one; an insert that does not exceed the capacity evicts nothing.
C2_EvictsSmallest ==
  [][\A t \in Tasks :
       InsertStep(t) =>
         LET all == (DOMAIN blockTimestamps) \cup {call[t].blockNumber}
         IN IF Cardinality(all) > maxCacheSize
              THEN DOMAIN blockTimestamps' = all \ {MinOf(all)}
              ELSE DOMAIN blockTimestamps' = all]_vars

\* a call returned the timestamp it fetched, and its own entry was the one evicted
C2_Witness ==
  \E t \in Tasks :
    /\ call[t].pc = "done" /\ ~call[t].hit /\ call[t].result # NULL
    /\ call[t].blockNumber \notin DOMAIN blockTimestamps
    /\ Cardinality(DOMAIN blockTimestamps) = maxCacheSize
    /\ \A k \in DOMAIN blockTimestamps : call[t].blockNumber < k

\* C3: after inserts for strictly increasing block numbers into an initially
\* empty cache, more of them than the capacity, exactly the maxCacheSize
\* largest are present and the others are absent.
C3_KeepsMostRecent ==
  (monotone /\ Cardinality(insertedKeys) > maxCacheSize) =>
     DOMAIN blockTimestamps = Largest(insertedKeys, maxCacheSize)

C3_Witness ==
  /\ monotone
  /\ Cardinality(insertedKeys) > maxCacheSize
  /\ MinOf(insertedKeys) \notin DOMAIN blockTimestamps

\* C4: a call for a block that is cached when the call starts returns the
\* cached timestamp at once and issues no provider.getBlock.
C4_HitIssuesNoFetch ==
  [][\A t \in Tasks :
       (call[t].pc = "idle" /\ call'[t].pc # "idle"
          /\ call'[t].blockNumber \in DOMAIN blockTimestamps) =>
         /\ call'[t].pc = "done"
         /\ call'[t].result = blockTimestamps[call'[t].blockNumber]
         /\ call'[t].fetches = 0]_vars

\* a hit returned while the other task was fetching
C4_Witness ==
  \E t \in Tasks :
    /\ call[t].pc = "done" /\ call[t].hit /\ call[t].result # NULL
    /\ \E u \in Tasks \ {t} : call[u].pc = "fetch"

\* C5 (safety part): at most maxRetries getBlock calls per call, none after
\* the first that yields a block, null exactly when maxRetries attempts failed
C5_Attempts ==
  \A t \in Tasks :
    /\ call[t].fetches <= maxRetries
    /\ call[t].failures <= call[t].fetches
    /\ (call[t].pc = "done" /\ ~call[t].hit) =>
         /\ (call[t].result = NULL) <=> (call[t].failures = maxRetries)
         /\ (call[t].result # NULL) => (call[t].fetches = call[t].failures + 1)
         /\ (call[t].result = NULL) => (call[t].fetches = maxRetries)

\* C5: on a miss getBlockTimestamp issues at most maxRetries getBlock calls,
\* stops at the first that yields a block, returns null exactly when all
\* maxRetries attempts failed, and (the provider answering, the timers
\* firing) always terminates.
C5_BoundedRetries ==
  /\ []C5_Attempts
  /\ \A t \in Tasks : (call[t].pc \in {"fetch", "sleep"}) ~> (call[t].pc = "done")

\* a call gave up with null after maxRetriesDefault failed attempts
C5_Witness ==
  \E t \in Tasks :
    /\ call[t].pc = "done" /\ ~call[t].hit /\ call[t].result = NULL
    /\ maxRetries = maxRetriesDefault
    /\ call[t].failures = maxRetriesDefault

(***************************************************************************)
(* Properties of the connection lifecycle manager.                         *)
(***************************************************************************)
\* a reconnect() call that started has not yet seen its connect() complete;
\* but is a connect() call left out (0 for none)
reconnectInProgress(but) ==
  \/ destroying + sleeping > 0
  \/ \E k \in Sessions \ {1, but} : connectWait[k] = "waiting"

\* the step calls reconnect() from a trigger other than the failure of the
\* connect() that the reconnect in progress itself made
reconnectCalled(but) ==
  \/ \E s \in Sessions : errorEvent(s)
  \/ \E p \in Sessions : probeFailed(p)
  \/ \E k \in Sessions : probeFire(k) /\ provider = 0
  \/ but # 0 /\ connectTimeout(but)

\* the step calls reconnect()
reconnectStep == \E k \in Sessions \cup {0} : reconnectCalled(k)

\* C6: once the attempts have reached the ceiling, the next reconnect() does
\* not retry (no increment, no teardown, no sleep, no connect) but exits with
\* 1; the process does nothing after that, and the fatal exit is raised at
\* most once over the run, whatever reconnect calls are in flight.
C6_FatalOnce ==
  /\ [](fatalSignals <= 1 /\ (fatalSignals = 1 => exitCode = 1))
  /\ [][(reconnectStep /\ reconnectAttempts >= maxReconnectAttempts) =>
          /\ exitCode' = 1
          /\ fatalSignals' = fatalSignals + 1
          /\ UNCHANGED <<reconnectAttempts, isConnected, provider, session, created,
                         destroying, sleeping>>]_vars
  /\ [][fatalSignals >= 1 => UNCHANGED vars]_vars

\* the fatal exit was raised while another reconnect() was still in flight
C6_Witness ==
  /\ fatalSignals = 1
  /\ exitCode = 1
  /\ reconnectAttempts = maxReconnectAttempts
  /\ destroying + sleeping > 0

\* C7: a reconnect() called while a reconnect is in progress is a no-op: no
\* increment of the attempt counter, no teardown, no second connect().
C7_ReentrantReconnectNoOp ==
  [][\A k \in Sessions \cup {0} :
       (reconnectInProgress(k) /\ reconnectCalled(k)) =>
          UNCHANGED <<reconnectAttempts, session, destroying, sleeping, created>>]_vars

\* C8: getProvider() returns only a session that was confirmed live and has
\* not been torn down or replaced since.
C8_GetProviderLive == getProviderReturns => session[provider] = "live"

\* C9: after a reconnect that ended in a successful connect(), the contract
\* listeners and the swap filter are installed on the new live session.
C9_FiltersReinstalled ==
  (appPc = "running" /\ getProviderReturns /\ provider >= 2 /\ session[provider] = "live") =>
     (provider \in contractListeners /\ provider \in swapFilter)

\* the listener of a published category ran to its end on task t
handledPublished(t) == handler[t].pc = "done" /\ handler[t].kind \in PublishedKinds

\* C10 (as stated): every log of a published category (creation, purchase,
\* sale, migration) delivered to its handler results in exactly one publish
\* call for that log, never two and never zero.
C10_ExactlyOnePublish ==
  \A t \in HandlerTasks : handledPublished(t) => handler[t].sends = 1

\* C10 (amended): a delivered log of a published category results in at most
\* one publish call; in exactly one when its handler reached the publish step
\* without raising and the producer connected at start-up, and in none when
\* the producer is unavailable (sendToKafka skips) or the handler raised.
C10_AtMostOnePublish ==
  \A t \in HandlerTasks :
    /\ handler[t].sends <= 1
    /\ handledPublished(t) =>
         handler[t].sends = IF kafkaProducer = "connected" /\ ~handler[t].raised THEN 1 ELSE 0

\* a creation log whose handler published once and saw the send resolve
C10_Witness ==
  \E t \in HandlerTasks :
    /\ handledPublished(t)
    /\ handler[t].kind = "TokenCreate"
    /\ handler[t].sends = 1
    /\ handler[t].sent = "ok"
    /\ handler[t].topic = TOKEN_RAW_CREATED

\* a later log is being handled on task t after a run that ended as outcome
laterLogAfter(outcome) ==
  \E t \in HandlerTasks : lastOutcome = outcome /\ handler[t].pc = "blockTime"

\* C11: a failure of the publish call is caught inside the publish step: the
\* handler completes and returns its record without raising, the
\* created-token index and the cache are left as they were, and the listeners
\* stay installed on a running process, so later logs are still processed.
C11_PublishFailureContained ==
  [][\A t \in HandlerTasks :
       (handler[t].pc = "send" /\ handler'[t].sent = "failed") =>
         /\ handler'[t].pc = "done"
         /\ ~handler'[t].raised
         /\ createdTokens' = createdTokens
         /\ blockTimestamps' = blockTimestamps
         /\ contractListeners' = contractListeners
         /\ session' = session
         /\ exitCode' = exitCode]_vars

\* a log is being handled after the publish of the previous one failed
C11_Witness == laterLogAfter("sendFailed")

\* C12: an exception raised while handling one log ends in that log's
\* listener (the run finishes as any other) and leaves the listeners, the
\* session and the process as they were: later logs on the same filter are
\* still handed to their handler.
C12_ListenerSurvives ==
  /\ [](\A t \in HandlerTasks : handler[t].raised => handler[t].pc = "done")
  /\ [][\A t \in HandlerTasks :
          (~handler[t].raised /\ handler'[t].raised) =>
            /\ contractListeners' = contractListeners
            /\ swapFilter' = swapFilter
            /\ session' = session
            /\ exitCode' = exitCode]_vars

\* a log is being handled after the handler of the previous one raised
C12_Witness == laterLogAfter("raised")

\* C13: each published record goes to the topic of its category: creations
\* to the created topic, purchases and sales to the trade topic, migrations
\* to the migrated topic; a TradeStop is never published.
C13_TopicOfCategory ==
  \A t \in HandlerTasks :
    /\ handler[t].sends > 0 =>
         \/ handler[t].kind = "TokenCreate" /\ handler[t].topic = "token.raw.created"
         \/ handler[t].kind \in {"TokenPurchase", "TokenSale"} /\ handler[t].topic = "token.raw.trade"
         \/ handler[t].kind = "LiquidityAdded" /\ handler[t].topic = "token.raw.migrated"
    /\ handler[t].kind = "TradeStop" => (handler[t].sends = 0 /\ handler[t].topic = "none")

\* a migration record was published, and to the migrated topic
C13_Witness ==
  \E t \in HandlerTasks :
    /\ handler[t].kind = "LiquidityAdded"
    /\ handler[t].sent = "ok"
    /\ handler[t].topic = TOKEN_RAW_MIGRATED

\* C14: every published message is keyed by the record's transaction
\* signature whenever the signature is present; only when it is absent is a
\* fallback (random) key used.
C14_KeyedBySignature ==
  \A t \in HandlerTasks :
    handler[t].sends > 0 =>
      handler[t].key = IF handler[t].signature # "none" THEN handler[t].signature ELSE "random"

\* C20: for a trade (purchase or sale) the total-supply call is attempted
\* only for a V2 log with a price above zero; for a V1 log or a price of zero
\* no such call is made and the record's market_cap is 0.
C20_SupplyCallOnlyWhenPriced ==
  \A t \in HandlerTasks :
    handler[t].kind \in {"TokenPurchase", "TokenSale"} =>
      /\ handler[t].supplyCalls > 0 => (handler[t].version = "V2" /\ handler[t].price > 0)
      /\ (handler[t].version = "V1" \/ handler[t].price = 0) =>
           (handler[t].supplyCalls = 0 /\ handler[t].marketCap = 0)

\* a V2 sale at price 0 was published: no supply call, market_cap 0
C20_Witness ==
  \E t \in HandlerTasks :
    /\ handler[t].kind = "TokenSale"
    /\ handler[t].version = "V2"
    /\ handler[t].price = 0
    /\ handler[t].sent = "ok"
    /\ handler[t].supplyCalls = 0
    /\ handler[t].marketCap = 0

\* C16: the attempt counter goes back to zero only on the step that confirms
\* a connect() (its first 'block'); every other change is the increment of a
\* reconnect(), so a failed connect(), a reconnect() or a disconnect() never
\* resets it and consecutive failures accumulate toward the ceiling.
C16_ResetOnlyOnConfirm ==
  /\ [][reconnectAttempts' # reconnectAttempts =>
          \/ /\ reconnectAttempts' = 0
             /\ isConnected'
             /\ \E k \in Sessions :
                  connectWait[k] = "waiting" /\ connectWait'[k] = "done" /\ session'[k] = "live"
          \/ reconnectAttempts' = reconnectAttempts + 1]_vars
  /\ [][(reconnectStep /\ reconnectAttempts < maxReconnectAttempts) =>
          reconnectAttempts' = reconnectAttempts + 1]_vars

\* a reconnect (counted as attempt 1) ended in a confirmed session: the
\* counter is back at zero
C16_Witness ==
  /\ created >= 2
  /\ provider # 0
  /\ session[provider] = "live"
  /\ isConnected
  /\ reconnectAttempts = 0

\* C17: disconnect() cancels the health-probe timer and tears down the
\* session (teardown errors swallowed) and is idempotent: from any state a
\* second call leaves the manager as the first call left it (no session, no
\* timer, not connected), and neither call fails.
C17_DisconnectIdempotent ==
  (disconnects.pc = "idle" /\ disconnects.calls >= 1) =>
    /\ ~disconnects.failed
    /\ provider = 0
    /\ healthCheckInterval = 0
    /\ ~isConnected
    /\ \A s \in Sessions : timer[s] # "active" /\ session[s] \notin {"open", "live"}
    /\ disconnects.calls = 2 => managerState = disconnects.first

\* two calls returned; the first cancelled a timer and tore down a session
C17_Witness ==
  /\ disconnects.calls = 2
  /\ disconnects.pc = "idle"
  /\ \E s \in Sessions : timer[s] = "cleared"
  /\ \E s \in Sessions : session[s] = "destroyed"
  /\ managerState = disconnects.first

\* C18: on every shutdown path (a signal, or the fatal exit of reconnect())
\* the health-probe timer is cancelled, the live session is closed and the
\* monitor's producer is disconnected before the process exits.
C18_ShutdownReleases ==
  (exitCode # NULL /\ (exitCode = 0 \/ fatalSignals > 0)) =>
    /\ \A s \in Sessions : timer[s] # "active"
    /\ \A s \in Sessions : session[s] \notin {"open", "live"}
    /\ kafkaProducer # "connected"

\* C19: the process exits with 0 only on a shutdown started by a signal, and
\* with 1 when it ends on an unrecoverable connection failure or on an error
\* that surfaced as an uncaught exception or unhandled rejection.
C19_ExitCodes ==
  /\ exitCode = 0 => shutdownCause = "signal"
  /\ shutdownCause = "uncaught" => exitCode \in {NULL, 1}
  /\ fatalSignals > 0 => exitCode = 1

\* C15: for every attempt >= 1 the delay is min(base * 2^(attempt-1), max):
\* it never exceeds max, is not below the delay of the attempt before, and
\* stays at max once it has reached it.
C15_BackoffDelay ==
  backoff.attempt >= 1 =>
    LET doubled == backoff.baseDelay * (2 ^ (backoff.attempt - 1))
    IN /\ backoff.delay = IF doubled <= backoff.maxDelay THEN doubled ELSE backoff.maxDelay
       /\ backoff.delay <= backoff.maxDelay
       /\ backoff.previous <= backoff.delay
       /\ backoff.previous = backoff.maxDelay => backoff.delay = backoff.maxDelay

\* a run that rose from its base to the cap and stayed there
C15_Witness ==
  /\ backoff.attempt >= 3
  /\ 0 < backoff.baseDelay
  /\ backoff.baseDelay < backoff.maxDelay
  /\ backoff.previous = backoff.maxDelay
  /\ backoff.delay = backoff.maxDelay

\* the handler on task t got past decoding and its auxiliary calls: the record
\* was built
recordBuilt(t) == handler[t].pc \in {"send", "done"} /\ ~handler[t].raised

\* a V2 trade log with a price above zero is handled on task t
pricedTrade(t) ==
  /\ handler[t].kind \in {"TokenPurchase", "TokenSale"}
  /\ handler[t].version = "V2"
  /\ handler[t].price > 0

\* C21 (as stated): every V2 trade, purchase and sale alike, with a price above
\* zero attempts the auxiliary total-supply call, and when the call returns a
\* supply the record's market_cap is the price times that supply.
C21_SupplyCalledForV2Trades ==
  \A t \in HandlerTasks :
    (pricedTrade(t) /\ recordBuilt(t)) =>
      /\ handler[t].supplyCalls = 1
      /\ handler[t].supply # NULL => handler[t].marketCap = handler[t].price * handler[t].supply

C23_FieldsDecidedSeparately ==
  \A t \in HandlerTasks :
    (handler[t].kind = "LiquidityAdded" /\ recordBuilt(t)) =>
      /\ handler[t].migratorWallet = IF handler[t].founderOk THEN FOUNDER ELSE "N/A"
      /\ handler[t].liquidityPool = IF handler[t].pairOk THEN PAIR ELSE "N/A"

\* task t decodes a TokenCreate log in this step: its record is built
createDecoded(t) ==
  /\ handler[t].kind = "TokenCreate"
  /\ handler[t].pc = "blockTime"
  /\ handler'[t].pc \in {"send", "done"}
  /\ ~handler'[t].raised

\* C24: every decoded TokenCreate appends exactly one record, the token's
\* address, to the end of the created-token index, whether or not the publish
\* then succeeds or is made at all; no other step adds to the index, and its
\* length decreases only by clearCreatedTokens, which empties it.
C24_IndexAppendOnly ==
  [][/\ \A t \in HandlerTasks :
          createDecoded(t) => createdTokens' = Append(createdTokens, handler[t].token)
     /\ createdTokens' # createdTokens =>
          \/ createdTokens' = <<>>
          \/ \E t \in HandlerTasks : createDecoded(t)
     /\ Len(createdTokens') < Len(createdTokens) => createdTokens' = <<>>]_vars

\* the index holds the token of a creation log whose publish failed
C24_Witness ==
  \E t \in HandlerTasks :
    /\ handler[t].kind = "TokenCreate"
    /\ handler[t].sent = "failed"
    /\ createdTokens # <<>>
    /\ createdTokens[Len(createdTokens)] = handler[t].token

\* the records built from the log
builtRecords == {decoding.records[i] : i \in 1..Len(decoding.records)}

\* C25 (as stated): block_time is floor(ms / 1000) of the cached timestamp
\* whenever the cache query returns a timestamp, for every value including 0;
\* the wall clock is used only when the query answers not-found.
C25_BlockTimeFromCache ==
  \A rec \in builtRecords :
    ~rec.raised =>
      rec.block_time = IF decoding.blockTimestamp # NULL
                         THEN decoding.blockTimestamp \div 1000
                         ELSE decoding.now \div 1000

\* C26 (as stated): decoding the same raw log twice yields identical records:
\* the record depends only on the log and the block data, not on the clock.
C26_DecodeDeterministic ==
  Len(decoding.records) = 2 => decoding.records[1] = decoding.records[2]

\* C27 (as stated): decoding never fails on missing fields: an absent field
\* is replaced by a placeholder and the record is still produced.
C27_DecodeNeverFails ==
  \A rec \in builtRecords : ~rec.raised

\* C28 (as stated): a field takes the value of the named lookup whenever the
\* name is present in the raw log, whatever the value (zero and the empty
\* string included), and of the positional lookup only when it is absent.
C28_NamedWhenPresent ==
  \A rec \in builtRecords :
    ~rec.raised =>
      /\ rec.token_name =
           IF decoding.log.name # UNDEFINED THEN decoding.log.name ELSE decoding.log.arg3
      /\ rec.initial_supply.value =
           IF decoding.log.totalSupply # NULL THEN decoding.log.totalSupply
                                             ELSE decoding.log.arg5

\* C29 (as stated): once a block number has a timestamp in the cache, the
\* value stored under it never changes until the entry is evicted or the
\* cache is cleared: inserts are insert-if-absent, also when two concurrent
\* calls for the same block both miss and are answered differently.
C29_EntriesImmutable ==
  [][\A b \in DOMAIN blockTimestamps \cap DOMAIN blockTimestamps' :
        blockTimestamps'[b] = blockTimestamps[b]]_vars

\* task t starts a call for a block that is not cached, with an attempt allowed
missStep(t) ==
  /\ call[t].pc = "idle"
  /\ call'[t].pc # "idle"
  /\ call'[t].blockNumber \notin DOMAIN blockTimestamps
  /\ maxRetries >= 1

\* the fetch of task t succeeds for a block that was cached meanwhile
reinsertStep(t) ==
  /\ call[t].pc = "fetch"
  /\ call'[t].pc = "done"
  /\ call'[t].result # NULL
  /\ call[t].blockNumber \in DOMAIN blockTimestamps

\* C30: a call for an uncached block starts its own fetch loop whether or not
\* another call for the same block is in flight, and a call that is past its
\* cache check has issued a fetch of its own; when the fetch of the later call
\* succeeds on a block the earlier call already inserted, the cache keeps its
\* keys and its size and holds under that block what this call fetched, every
\* other entry untouched: the state a single successful call leaves.
C30_NoDeduplication ==
  /\ [](\A t \in Tasks : call[t].pc \in {"fetch", "sleep"} =>
           (call[t].fetches >= 1 /\ ~call[t].hit))
  /\ [][\A t \in Tasks :
          /\ missStep(t) => (call'[t].pc = "fetch" /\ call'[t].fetches = 1)
          /\ reinsertStep(t) =>
               /\ DOMAIN blockTimestamps' = DOMAIN blockTimestamps
               /\ blockTimestamps'[call[t].blockNumber] = call'[t].result
               /\ \A k \in DOMAIN blockTimestamps \ {call[t].blockNumber} :
                    blockTimestamps'[k] = blockTimestamps[k]]_vars

\* both tasks missed on the same block, each fetched on its own, both
\* succeeded, and the block is cached once with what one of them fetched
C30_Witness ==
  /\ \A t \in Tasks :
       /\ call[t].pc = "done"
       /\ ~call[t].hit
       /\ call[t].result # NULL
       /\ call[t].fetches >= 1
  /\ call["t1"].blockNumber = call["t2"].blockNumber
  /\ call["t1"].blockNumber \in DOMAIN blockTimestamps
  /\ blockTimestamps[call["t1"].blockNumber] \in {call["t1"].result, call["t2"].result}
  /\ Cardinality(DOMAIN blockTimestamps) = maxCacheSize

\* the health-probe timers that are running
activeTimers == {k \in Sessions : timer[k] = "active"}

\* the sessions opened and not destroyed
openSessions == {k \in Sessions : session[k] \in {"open", "live"}}

\* C35 (as stated): in every reachable state the manager has at most one
\* active health-probe timer and at most one session opened and not destroyed,
\* and every timer and session it created is the one it references or has
\* been cancelled or destroyed.
C35_OneTimerOneSession ==
  /\ Cardinality(activeTimers) <= 1
  /\ Cardinality(openSessions) <= 1
  /\ activeTimers \subseteq {healthCheckInterval}
  /\ openSessions \subseteq {provider}

\* C36: in every reachable state 0 <= reconnectAttempts <= maxReconnectAttempts,
\* also while several reconnect() calls are in flight.
C36_AttemptsInRange ==
  /\ 0 <= reconnectAttempts
  /\ reconnectAttempts <= maxReconnectAttempts

\* the counter is at the ceiling with two reconnect() calls in flight
C36_Witness ==
  /\ reconnectAttempts = maxReconnectAttempts
  /\ destroying + sleeping >= 2
  /\ running

\* C37 (as stated): whenever initializeRPC() and the connect() it awaits
\* complete without raising, the manager is connected: isHealthy() is true
\* and getProvider() returns a session.
C37_InitializedIsConnected ==
  [][(appPc = "initRPC" /\ appPc' = "kafka") =>
       (isConnected' /\ provider' # 0 /\ session'[provider'] = "live")]_vars

\* the step is a transport error on the manager's session, or the failure of
\* a health probe sent on it
lossOnSession == provider # 0 /\ (errorEvent(provider) \/ probeFailed(provider))

\* C31: while the manager is connected, a failed health probe or a transport
\* error on its session moves it out of the connected state (getProvider()
\* throws) and starts a reconnect: the attempt is counted, the probe timer is
\* cancelled and dropped, the session is torn down; when the teardown a
\* reconnect awaits settles the reconnect delay starts, and the delay ends in
\* a new connect() and in nothing else.
C31_LossStartsReconnect ==
  /\ [][(isConnected /\ lossOnSession) =>
          /\ ~isConnected'
          /\ reconnectAttempts' = reconnectAttempts + 1
          /\ healthCheckInterval' = 0
          /\ healthCheckInterval # 0 => timer'[healthCheckInterval] = "cleared"
          /\ session'[provider] = "destroyed"
          /\ destroying' = destroying + 1
          /\ exitCode' = exitCode]_vars
  /\ [][destroying' < destroying => (sleeping' = sleeping + 1 /\ provider' = 0)]_vars
  /\ [][sleeping' < sleeping =>
          /\ created' = created + 1
          /\ provider' = created'
          /\ session'[created'] = "open"
          /\ connectWait'[created'] = "waiting"]_vars

\* session 2 was confirmed after a reconnect (the counter went back to zero)
\* and then lost: a second reconnect is tearing it down
C31_Witness ==
  /\ created = 2
  /\ provider = 2
  /\ session[2] = "destroyed"
  /\ connectWait[2] = "done"
  /\ reconnectAttempts = 1
  /\ destroying = 1
  /\ ~isConnected
  /\ healthCheckInterval = 0

\* the confirmation timeout of connect() call k fires in this step
timeoutStep(k) ==
  /\ connectWait[k] = "waiting"
  /\ connectWait'[k] = "done"
  /\ session'[k] # "live"

\* C32: when the confirmation timeout of a connect() elapses before its
\* session is confirmed, the manager is not marked connected, the attempt
\* counter is not reset, and reconnect() is called as for any connect error:
\* the fatal exit at the ceiling, else the attempt is counted, the timer
\* dropped, the referenced session torn down and the reconnect delay awaited.
C32_TimeoutIsConnectFailure ==
  [][\A k \in Sessions : timeoutStep(k) =>
       /\ ~isConnected'
       /\ reconnectAttempts' >= reconnectAttempts
       /\ IF reconnectAttempts >= maxReconnectAttempts
            THEN exitCode' = 1 /\ created' = created
            ELSE /\ reconnectAttempts' = reconnectAttempts + 1
                 /\ healthCheckInterval' = 0
                 /\ exitCode' = exitCode
                 /\ IF provider # 0
                      THEN destroying' = destroying + 1 /\ session'[provider] = "destroyed"
                      ELSE sleeping' = sleeping + 1]_vars

\* the wait of a connect() ended on a session that was never confirmed and
\* is not the one the manager references
C32_Witness ==
  \E k \in Sessions :
    /\ connectWait[k] = "done"
    /\ session[k] = "open"
    /\ ~isConnected
    /\ reconnectAttempts >= 1

\* the disconnect() of the shutdown has completed (the graceful exit follows
\* it in the same turn)
disconnectCompleted == shutdownCause # "none" /\ exitCode = 0

\* C34 (as stated): once disconnect() has completed the manager is and stays
\* disconnected: it holds no open session and no running health-probe timer,
\* also when a reconnect was waiting out its delay or a connect() was awaiting
\* confirmation when disconnect() was called.
C34_StaysDisconnected ==
  disconnectCompleted => (openSessions = {} /\ activeTimers = {})

\* the manager lost its connection, or has not had one yet
connectionLost == appPc # "start" /\ ~(isConnected /\ provider # 0)

\* C33: under fair scheduling and with no shutdown, a manager that is not
\* connected (after a failed probe, a transport error or a failed connect)
\* eventually is connected again or has terminated with the fatal exit; the
\* fatal exit is taken only with the attempt counter at its ceiling, which
\* the counter never exceeds.
C33_ReconnectsOrExits ==
  /\ connectionLost ~> ((isConnected /\ provider # 0) \/ exitCode = 1)
  /\ [](reconnectAttempts <= maxReconnectAttempts)
  /\ [](exitCode # NULL =>
          (exitCode = 1 /\ fatalSignals = 1 /\ reconnectAttempts = maxReconnectAttempts))

\* connected again on the session a reconnect opened, after a loss
C33_Witness ==
  /\ created >= 2
  /\ isConnected
  /\ provider = created
  /\ session[provider] = "live"
  /\ session[1] = "destroyed"
  /\ destroying + sleeping = 0

\* the fetch of task t succeeds in this step: the call returns what it fetched
fetchedStep(t) ==
  /\ call[t].pc = "fetch"
  /\ call'[t].pc = "done"
  /\ call'[t].result # NULL

\* C38 (as stated): after getBlockTimestamp(b) returns a timestamp it fetched
\* from the provider, block b is in the cache with that timestamp, so the
\* next getBlockTimestamp(b) is served from the cache.
C38_FetchedIsCached ==
  [][\A t \in Tasks : fetchedStep(t) =>
       /\ call[t].blockNumber \in DOMAIN blockTimestamps'
       /\ blockTimestamps'[call[t].blockNumber] = call'[t].result]_vars

\* a step of a call that is not the success of a fetch: the call starts on a
\* miss, an attempt fails, a backoff sleep ends, the call returns null, or
\* the null is handed to the caller
notFoundStep(t) ==
  /\ call'[t] # call[t]
  /\ ~call'[t].hit /\ ~call[t].hit
  /\ call'[t].result = NULL
  /\ call[t].result = NULL

\* C39: a getBlockTimestamp call that returns not-found leaves the cache as it
\* is at every one of its steps: the miss, the failed attempts, the sleeps and
\* the return insert no entry and evict none.
C39_NotFoundLeavesCache ==
  [][\A t \in Tasks : notFoundStep(t) => blockTimestamps' = blockTimestamps]_vars

\* a call gave up with null after maxRetries failed attempts next to a full
\* cache
C39_Witness ==
  \E t \in Tasks :
    /\ call[t].pc = "done"
    /\ call[t].result = NULL
    /\ maxRetries >= 2
    /\ call[t].failures = maxRetries
    /\ call[t].blockNumber \notin DOMAIN blockTimestamps
    /\ Cardinality(DOMAIN blockTimestamps) = maxCacheSize

\* C40 (as stated): sendRawTokenEvent never calls send on a producer whose
\* connect() has not completed successfully, also with two sends in flight
\* before the first connect finished and after an earlier connect() failed;
\* and at most one producer instance is created between two
\* disconnectProducer() calls.
C40_SendOnlyOnConnected ==
  /\ \A s \in Senders : producer.sender[s].pc = "sending" => producer.sender[s].ready
  /\ producer.madeSinceDisconnect <= 1

====
